---- MODULE Spec2Model ----
(***************************************************************************)
(* The joiner reactor of casper-node (node/src/reactor/joiner.rs): the     *)
(* Event algebra, Reactor::new, Reactor::dispatch_event,                   *)
(* Reactor::is_stopped and Reactor::into_validator_config, driven by a     *)
(* host scheduler that cranks one event at a time.                         *)
(***************************************************************************)
EXTENDS Naturals, Sequences, FiniteSets, TLC

(***************************************************************************)
(* Bounds of the model.                                                    *)
(***************************************************************************)
\* dispatch cycles the scheduler runs before the model stops cranking, when
\* the events are those of the phase's life cycle
MaxDispatch == 2
\* dispatch cycles when every event of the algebra may be dispatched
MaxRouted == 1

\* how many effects one handler invocation may return
EffectCounts == {0, 1, 2}
\* how many effects a component's constructor may return
InitialEffectCounts == {0, 2}

Peers == {"P", "Q"}
Blocks == {1, 2}
Heights == {1, 2}
Addresses == {1, 2}

(***************************************************************************)
(* Events.  Every event is a record of one shape:                          *)
(*   v     the Event variant (or, for a component's own event, its type)   *)
(*   k     the sub-variant of the payload                                  *)
(*   m     for a network message: the Message variant                      *)
(*   tag   for a Get request/response: the item tag                        *)
(*   p     the peer (sender, source or target), "Client", or "-"           *)
(*   n     a number: block id, height, address, effect index               *)
(*   item  for a decoded item: its shape                                   *)
(*   bytes for a Get response: the serialized item                         *)
(***************************************************************************)
Ev(v, k, m, tag, p, n, item, bytes) ==
    [v |-> v, k |-> k, m |-> m, tag |-> tag, p |-> p, n |-> n,
     item |-> item, bytes |-> bytes]

\* The variants of enum Event that wrap a component's own event type.
ComponentVariants ==
    {"Network", "Storage", "BlockFetcher", "BlockByHeightFetcher",
     "DeployFetcher", "BlockValidator", "LinearChainSync", "BlockExecutor",
     "ContractRuntime", "LinearChain", "Consensus", "AddressGossiper"}

RequestVariants ==
    {"BlockFetcherRequest", "BlockByHeightFetcherRequest",
     "DeployFetcherRequest", "BlockValidatorRequest", "BlockExecutorRequest",
     "DeployBufferRequest", "ProtoBlockValidatorRequest"}

AnnouncementVariants ==
    {"NetworkAnnouncement", "BlockExecutorAnnouncement",
     "ConsensusAnnouncement", "AddressGossiperAnnouncement"}

EventVariants == ComponentVariants \cup RequestVariants \cup AnnouncementVariants

\* The type of the payload each component variant wraps.
NativeType(variant) ==
    CASE variant = "Network" -> "small_network::Event"
      [] variant = "Storage" -> "storage::Event"
      [] variant = "BlockFetcher" -> "fetcher::Event<Block>"
      [] variant = "BlockByHeightFetcher" -> "fetcher::Event<BlockByHeight>"
      [] variant = "DeployFetcher" -> "fetcher::Event<Deploy>"
      [] variant = "BlockValidator" -> "block_validator::Event"
      [] variant = "LinearChainSync" -> "linear_chain_sync::Event"
      [] variant = "BlockExecutor" -> "block_executor::Event"
      [] variant = "ContractRuntime" -> "contract_runtime::Event"
      [] variant = "LinearChain" -> "linear_chain::Event"
      [] variant = "Consensus" -> "consensus::Event"
      [] variant = "AddressGossiper" -> "gossiper::Event"

\* The payload of a component variant: the component's own event.
Inner(event) == [event EXCEPT !.v = NativeType(event.v)]

\* A component's own event of kind k.
Native(variant, k, p, n, item) ==
    Ev(NativeType(variant), k, "-", "-", p, n, item, <<>>)

\* The tuple-variant constructors of enum Event, as wrap_effects takes them.
Event_Network_as_AddressGossiper(e) == [e EXCEPT !.v = "AddressGossiper"]
Event_Network(e) == [e EXCEPT !.v = "Network"]
Event_Storage(e) == [e EXCEPT !.v = "Storage"]
Event_BlockFetcher(e) == [e EXCEPT !.v = "BlockFetcher"]
Event_BlockByHeightFetcher_as_BlockFetcherRequest(e) ==
    [e EXCEPT !.v = "BlockFetcherRequest"]
Event_BlockByHeightFetcher(e) == [e EXCEPT !.v = "BlockByHeightFetcher"]
Event_DeployFetcher_as_BlockFetcher(e) == [e EXCEPT !.v = "BlockFetcher"]
Event_DeployFetcher(e) == [e EXCEPT !.v = "DeployFetcher"]
Event_BlockValidator(e) == [e EXCEPT !.v = "BlockValidator"]
Event_LinearChainSync_as_LinearChain(e) == [e EXCEPT !.v = "LinearChain"]
Event_LinearChainSync(e) == [e EXCEPT !.v = "LinearChainSync"]
Event_BlockExecutor(e) == [e EXCEPT !.v = "BlockExecutor"]
Event_ContractRuntime(e) == [e EXCEPT !.v = "ContractRuntime"]
Event_LinearChain_as_LinearChainSync(e) == [e EXCEPT !.v = "LinearChainSync"]
Event_LinearChain(e) == [e EXCEPT !.v = "LinearChain"]
Event_Consensus(e) == [e EXCEPT !.v = "Consensus"]
Event_AddressGossiper_as_Network(e) == [e EXCEPT !.v = "Network"]
Event_AddressGossiper(e) == [e EXCEPT !.v = "AddressGossiper"]

\* The constructor named Ctor applied to a component's event.
Construct(Ctor, e) ==
    CASE Ctor = "Event::Network" -> Event_Network(e)
      [] Ctor = "Event::Storage" -> Event_Storage(e)
      [] Ctor = "Event::BlockFetcher" -> Event_BlockFetcher(e)
      [] Ctor = "Event::BlockByHeightFetcher" -> Event_BlockByHeightFetcher(e)
      [] Ctor = "Event::DeployFetcher" -> Event_DeployFetcher(e)
      [] Ctor = "Event::BlockValidator" -> Event_BlockValidator(e)
      [] Ctor = "Event::LinearChainSync" -> Event_LinearChainSync(e)
      [] Ctor = "Event::BlockExecutor" -> Event_BlockExecutor(e)
      [] Ctor = "Event::ContractRuntime" -> Event_ContractRuntime(e)
      [] Ctor = "Event::LinearChain" -> Event_LinearChain(e)
      [] Ctor = "Event::Consensus" -> Event_Consensus(e)
      [] Ctor = "Event::AddressGossiper" -> Event_AddressGossiper(e)

\* reactor::wrap_effects: every effect's result re-tagged by the constructor,
\* in the order the effects were produced.
wrap_effects(Ctor, effects) ==
    [i \in DOMAIN effects |-> Construct(Ctor, effects[i])]

(***************************************************************************)
(* Serialized items.  A block is encoded as <<1, id>>; a BlockByHeight is  *)
(* the enum Absent(height) = <<0, height>> or Block(block) = <<1, 1, id>>. *)
(***************************************************************************)
SerializedItems == {<<1, 1>>, <<1, 2>>, <<0, 1>>, <<1, 1, 2>>, <<7>>, <<>>}

\* rmp_serde::from_read_ref::<Block>
decode_Block(bytes) ==
    IF Len(bytes) = 2 /\ bytes[1] = 1 /\ bytes[2] \in Blocks
    THEN [ok |-> TRUE, item |-> "Block", n |-> bytes[2]]
    ELSE [ok |-> FALSE, item |-> "-", n |-> 0]

\* rmp_serde::from_read_ref::<BlockByHeight>
decode_BlockByHeight(bytes) ==
    IF Len(bytes) = 2 /\ bytes[1] = 0 /\ bytes[2] \in Heights
    THEN [ok |-> TRUE, item |-> "Absent", n |-> bytes[2]]
    ELSE IF Len(bytes) = 3 /\ bytes[1] = 1 /\ decode_Block(Tail(bytes)).ok
    THEN [ok |-> TRUE, item |-> "Block", n |-> bytes[3]]
    ELSE [ok |-> FALSE, item |-> "-", n |-> 0]

(***************************************************************************)
(* Components.  The reactor owns one instance of each; a component's state *)
(* is a record naming the component ("is"), counting the events it has     *)
(* handled ("cnt"), and holding what the reactor reads of it.              *)
(***************************************************************************)
\* The fields of struct Reactor that are event-handling components, each with
\* the Event variant that wraps its events.
VariantOf(field) ==
    CASE field = "net" -> "Network"
      [] field = "storage" -> "Storage"
      [] field = "linear_chain_fetcher" -> "BlockFetcher"
      [] field = "block_by_height_fetcher" -> "BlockByHeightFetcher"
      [] field = "deploy_fetcher" -> "DeployFetcher"
      [] field = "block_validator" -> "BlockValidator"
      [] field = "linear_chain_sync" -> "LinearChainSync"
      [] field = "block_executor" -> "BlockExecutor"
      [] field = "contract_runtime" -> "ContractRuntime"
      [] field = "linear_chain" -> "LinearChain"
      [] field = "consensus" -> "Consensus"
      [] field = "address_gossiper" -> "AddressGossiper"

ComponentFields ==
    {"net", "storage", "linear_chain_fetcher", "block_by_height_fetcher",
     "deploy_fetcher", "block_validator", "linear_chain_sync",
     "block_executor", "contract_runtime", "linear_chain", "consensus",
     "address_gossiper"}

\* The choices a handler invocation makes that the reactor does not see:
\* how many effects it returns, and whether the sync tracker's own state
\* machine reaches its terminal state on this event.
Choices == [neff : EffectCounts, sync : BOOLEAN]

\* The effects a handler returns when nothing more is known of them: neff
\* effects, each resolving to an event of the component's own type.
ResultEffects(field, neff) ==
    [i \in 1..neff |-> Native(VariantOf(field), "Result", "-", i, "-")]

\* The effects a component's constructor returns: neff effects, each
\* resolving to an event of the component's own type.
InitialEffects(field, neff) ==
    [i \in 1..neff |-> Native(VariantOf(field), "Initial", "-", i, "-")]

\* LinearChainSync::is_synced
is_synced(st) == st.synced

\* LinearChain::linear_chain
linear_chain_of(st) == st.chain

\* Component::handle_event of the component in `field`: the component's next
\* state and the effects it returns, of the component's own event type.
handle_event(field, st, event, c) ==
    LET counted == [st EXCEPT !.cnt = @ + 1] IN
    CASE field = "linear_chain_sync" ->
           LET synced == st.synced \/ c.sync IN
           IF event.k = "NewPeerConnected"
           THEN [st |-> [counted EXCEPT !.peers = @ \cup {event.p},
                                        !.synced = synced],
                 effects |-> IF st.peers = {} /\ ~st.synced
                             THEN <<Native("LinearChainSync", "Start",
                                           event.p, 0, "-")>>
                             ELSE ResultEffects(field, c.neff)]
           ELSE [st |-> [counted EXCEPT !.synced = synced],
                 effects |-> ResultEffects(field, c.neff)]
      [] field = "linear_chain" ->
           \* On a new block the component either completes at once,
           \* appending the block, or schedules an effect and appends the
           \* block when the effect's result comes back.
           IF event.k = "LinearChainBlock"
           THEN IF c.neff = 0
                THEN [st |-> [counted EXCEPT !.chain = Append(@, event.n)],
                      effects |-> <<>>]
                ELSE [st |-> counted,
                      effects |-> <<Native("LinearChain", "BlockStored", "-",
                                           event.n, "Block")>>]
           ELSE IF event.k = "BlockStored"
           THEN [st |-> [counted EXCEPT !.chain = Append(@, event.n)],
                 effects |-> ResultEffects(field, c.neff)]
           ELSE [st |-> counted, effects |-> ResultEffects(field, c.neff)]
      [] OTHER ->
           [st |-> counted, effects |-> ResultEffects(field, c.neff)]

(***************************************************************************)
(* Conversions of requests into the owning component's event.              *)
(***************************************************************************)
\* From<FetcherRequest<NodeId, T>> for fetcher::Event<T>
From_FetcherRequest(variant, request) ==
    Native(variant, "Fetch", request.p, request.n, "-")

\* From<BlockValidationRequest<Block, NodeId>> for block_validator::Event and
\* From<BlockExecutorRequest> for block_executor::Event
From_Request(variant, request) ==
    Native(variant, "Request", request.p, request.n, "-")

(***************************************************************************)
(* Log entries of the tracing macros.                                      *)
(***************************************************************************)
LogEntry(level, text, p) == [level |-> level, text |-> text, p |-> p]

(***************************************************************************)
(* Reactor::dispatch_event.                                                *)
(***************************************************************************)
\* The arms of the match on `event`, in source order, each with its pattern:
\* the variant and, where the pattern names one, the sub-variant ("_" when
\* the pattern binds the whole payload).
Arms ==
    << [arm |-> "Network", v |-> "Network", k |-> "_"],
       [arm |-> "NewPeer", v |-> "NetworkAnnouncement", k |-> "NewPeer"],
       [arm |-> "GossipOurAddress", v |-> "NetworkAnnouncement",
        k |-> "GossipOurAddress"],
       [arm |-> "MessageReceived", v |-> "NetworkAnnouncement",
        k |-> "MessageReceived"],
       [arm |-> "Storage", v |-> "Storage", k |-> "_"],
       [arm |-> "BlockFetcherRequest", v |-> "BlockFetcherRequest", k |-> "_"],
       [arm |-> "BlockValidatorRequest", v |-> "BlockValidatorRequest",
        k |-> "_"],
       [arm |-> "LinearChainSync", v |-> "LinearChainSync", k |-> "_"],
       [arm |-> "BlockFetcher", v |-> "BlockFetcher", k |-> "_"],
       [arm |-> "BlockValidator", v |-> "BlockValidator", k |-> "_"],
       [arm |-> "DeployFetcher", v |-> "DeployFetcher", k |-> "_"],
       [arm |-> "BlockByHeightFetcher", v |-> "BlockByHeightFetcher",
        k |-> "_"],
       [arm |-> "DeployFetcherRequest", v |-> "DeployFetcherRequest",
        k |-> "_"],
       [arm |-> "BlockByHeightFetcherRequest",
        v |-> "BlockByHeightFetcherRequest", k |-> "_"],
       [arm |-> "BlockExecutor", v |-> "BlockExecutor", k |-> "_"],
       [arm |-> "BlockExecutorRequest", v |-> "BlockExecutorRequest",
        k |-> "_"],
       [arm |-> "ContractRuntime", v |-> "ContractRuntime", k |-> "_"],
       [arm |-> "LinearChainBlock", v |-> "BlockExecutorAnnouncement",
        k |-> "LinearChainBlock"],
       [arm |-> "LinearChain", v |-> "LinearChain", k |-> "_"],
       [arm |-> "Consensus", v |-> "Consensus", k |-> "_"],
       [arm |-> "ConsensusAnnouncement", v |-> "ConsensusAnnouncement",
        k |-> "_"],
       [arm |-> "DeployBufferRequest", v |-> "DeployBufferRequest", k |-> "_"],
       [arm |-> "ProtoBlockValidatorRequest",
        v |-> "ProtoBlockValidatorRequest", k |-> "_"],
       [arm |-> "AddressGossiper", v |-> "AddressGossiper", k |-> "_"],
       [arm |-> "AddressGossiperAnnouncement",
        v |-> "AddressGossiperAnnouncement", k |-> "_"] >>

\* A pattern that ignores the sub-variant it names.
Matches_variant_only(pat, event) == event.v = pat.v

\* Whether the pattern of an arm matches the event.
Matches(pat, event) ==
    /\ event.v = pat.v
    /\ pat.k = "_" \/ event.k = pat.k

\* The arms whose pattern matches the event.
MatchingArms(event) == {i \in DOMAIN Arms : Matches(Arms[i], event)}

\* The arm a match takes: the first whose pattern matches.
ArmOf(event) ==
    LET S == MatchingArms(event)
    IN  Arms[CHOOSE i \in S : \A j \in S : i <= j].arm

\* The inner match with the tag of a Get response not told apart: a response
\* of either tag takes the Block arm.
PayloadArmOf_any_tag(payload) ==
    IF payload.m = "GetResponse" /\ payload.tag \in {"Block", "BlockByHeight"}
    THEN "GetResponse::Block"
    ELSE IF payload.m = "AddressGossiper"
    THEN "Message::AddressGossiper"
    ELSE "other"

\* The arms of the inner match on the payload of MessageReceived; the last
\* binds every other payload.
PayloadArmOf(payload) ==
    IF payload.m = "GetResponse" /\ payload.tag = "Block"
    THEN "GetResponse::Block"
    ELSE IF payload.m = "GetResponse" /\ payload.tag = "BlockByHeight"
    THEN "GetResponse::BlockByHeight"
    ELSE IF payload.m = "AddressGossiper"
    THEN "Message::AddressGossiper"
    ELSE "other"

\* The inner match treating every announcement that names a height as
\* Handled.
ConsensusAnnouncementArmOf_any_height(announcement) ==
    IF announcement.n > 0 THEN "Handled" ELSE "other"

\* The arm of the inner match on a consensus announcement:
\* ConsensusAnnouncement::Handled(height), or the catch-all `other`.
ConsensusAnnouncementArmOf(announcement) ==
    IF announcement.k = "Handled" THEN "Handled" ELSE "other"

\* What one call of dispatch_event yields: the reactor, the effects returned,
\* the handler invocations made, the log entries written, the arms taken.
Outcome(self, effects, handled, log, path) ==
    [self |-> self, effects |-> effects, handled |-> handled, log |-> log,
     path |-> path]

\* The handler's effects lifted with the network's constructor, whatever
\* the component.
forward_as_network(self, field, Ctor, event, c, arm) ==
    LET r == handle_event(field, self[field], event, c)
    IN  Outcome([self EXCEPT ![field] = r.st],
                wrap_effects("Event::Network", r.effects),
                <<[field |-> field, event |-> event]>>,
                <<>>,
                <<arm>>)

\* The handler invoked while the network component is advanced as well.
forward_and_network(self, field, Ctor, event, c, arm) ==
    LET r == handle_event(field, self[field], event, c)
        advanced == [self EXCEPT ![field] = r.st]
    IN  Outcome(IF field = "net" THEN advanced
                ELSE [advanced EXCEPT !.net.cnt = @ + 1],
                wrap_effects(Ctor, r.effects),
                <<[field |-> field, event |-> event]>>,
                <<>>,
                <<arm>>)

\* reactor::wrap_effects(Ctor, self.<field>.handle_event(effect_builder, rng, event))
forward(self, field, Ctor, event, c, arm) ==
    LET r == handle_event(field, self[field], event, c)
    IN  Outcome([self EXCEPT ![field] = r.st],
                wrap_effects(Ctor, r.effects),
                <<[field |-> field, event |-> event]>>,
                <<>>,
                <<arm>>)

\* The outcome of a recursive call, reached through the arm `arm`.
through(arm, r) == [r EXCEPT !.path = <<arm>> \o @]

\* An arm that returns Effects::new() without logging.
drop_silently(self, arm, entry) == Outcome(self, <<>>, <<>>, <<>>, <<arm>>)

\* An arm that logs and asks for the dropped event to be retried.
drop_and_retry(self, arm, entry) ==
    Outcome(self,
            <<Event_Network(Native("Network", "Retry", "-", 0, "-"))>>,
            <<>>, <<entry>>, <<arm>>)

\* An arm that only logs and returns Effects::new().
drop(self, arm, entry) == Outcome(self, <<>>, <<>>, <<entry>>, <<arm>>)

\* The decode failure logged without the sender.
decode_failed_anonymous(self, arm, sender) ==
    drop(self, arm, LogEntry("error", "failed to decode block", "-"))

\* The arm taken when a serialized item does not decode: one error entry
\* naming the sender, and no effects.
decode_failed(self, arm, sender) ==
    drop(self, arm, LogEntry("error", "failed to decode block", sender))

RECURSIVE dispatch_event(_, _, _)
dispatch_event(self, event, c) ==
    LET arm == ArmOf(event) IN
    CASE arm = "Network" ->
           forward(self, "net", "Event::Network", Inner(event), c, arm)
      [] arm = "NewPeer" ->
           forward(self, "linear_chain_sync", "Event::LinearChainSync",
                   Native("LinearChainSync", "NewPeerConnected", event.p, 0, "-"),
                   c, arm)
      [] arm = "GossipOurAddress" ->
           LET ev == Native("AddressGossiper", "ItemReceived", "Client",
                            event.n, "-")
           IN  through(arm, dispatch_event(self, Event_AddressGossiper(ev), c))
      [] arm = "MessageReceived" ->
           LET parm == PayloadArmOf(event) IN
           (CASE parm = "GetResponse::Block" ->
                  LET block == decode_Block(event.bytes) IN
                  IF ~block.ok
                  THEN decode_failed(self, arm, event.p)
                  ELSE LET ev == Native("BlockFetcher", "GotRemotely", event.p,
                                        block.n, block.item)
                       IN  through(arm, dispatch_event(self,
                                        Event_BlockFetcher(ev), c))
             [] parm = "GetResponse::BlockByHeight" ->
                  LET block_at_height == decode_BlockByHeight(event.bytes) IN
                  IF ~block_at_height.ok
                  THEN decode_failed(self, arm, event.p)
                  ELSE LET ev == Native("BlockByHeightFetcher", "GotRemotely",
                                        event.p, block_at_height.n,
                                        block_at_height.item)
                       IN  through(arm, dispatch_event(self,
                                        Event_BlockByHeightFetcher(ev), c))
             [] parm = "Message::AddressGossiper" ->
                  LET ev == Native("AddressGossiper", "MessageReceived",
                                   event.p, event.n, "-")
                  IN  through(arm, dispatch_event(self,
                                   Event_AddressGossiper(ev), c))
             [] parm = "other" ->
                  drop(self, arm,
                       LogEntry("warn", "network announcement ignored.", "-")))
      [] arm = "Storage" ->
           forward(self, "storage", "Event::Storage", Inner(event), c, arm)
      [] arm = "BlockFetcherRequest" ->
           through(arm, dispatch_event(self,
               Event_BlockFetcher(From_FetcherRequest("BlockFetcher", event)), c))
      [] arm = "BlockValidatorRequest" ->
           through(arm, dispatch_event(self,
               Event_BlockValidator(From_Request("BlockValidator", event)), c))
      [] arm = "LinearChainSync" ->
           forward(self, "linear_chain_sync", "Event::LinearChainSync",
                   Inner(event), c, arm)
      [] arm = "BlockFetcher" ->
           forward(self, "linear_chain_fetcher", "Event::BlockFetcher",
                   Inner(event), c, arm)
      [] arm = "BlockValidator" ->
           forward(self, "block_validator", "Event::BlockValidator",
                   Inner(event), c, arm)
      [] arm = "DeployFetcher" ->
           forward(self, "deploy_fetcher", "Event::DeployFetcher",
                   Inner(event), c, arm)
      [] arm = "BlockByHeightFetcher" ->
           forward(self, "block_by_height_fetcher", "Event::BlockByHeightFetcher",
                   Inner(event), c, arm)
      [] arm = "DeployFetcherRequest" ->
           through(arm, dispatch_event(self,
               Event_DeployFetcher(From_FetcherRequest("DeployFetcher", event)), c))
      [] arm = "BlockByHeightFetcherRequest" ->
           through(arm, dispatch_event(self,
               Event_BlockByHeightFetcher(
                   From_FetcherRequest("BlockByHeightFetcher", event)), c))
      [] arm = "BlockExecutor" ->
           forward(self, "block_executor", "Event::BlockExecutor",
                   Inner(event), c, arm)
      [] arm = "BlockExecutorRequest" ->
           through(arm, dispatch_event(self,
               Event_BlockExecutor(From_Request("BlockExecutor", event)), c))
      [] arm = "ContractRuntime" ->
           forward(self, "contract_runtime", "Event::ContractRuntime",
                   Inner(event), c, arm)
      [] arm = "LinearChainBlock" ->
           LET reactor_event ==
                   Event_LinearChain(Native("LinearChain", "LinearChainBlock",
                                            "-", event.n, "Block"))
           IN  through(arm, dispatch_event(self, reactor_event, c))
      [] arm = "LinearChain" ->
           forward(self, "linear_chain", "Event::LinearChain", Inner(event), c, arm)
      [] arm = "Consensus" ->
           forward(self, "consensus", "Event::Consensus", Inner(event), c, arm)
      [] arm = "ConsensusAnnouncement" ->
           IF ConsensusAnnouncementArmOf(event) = "Handled"
           THEN forward(self, "linear_chain_sync", "Event::LinearChainSync",
                        Native("LinearChainSync", "BlockHandled", "-",
                               event.n, "-"),
                        c, arm)
           ELSE drop(self, arm,
                     LogEntry("warn", "Ignoring consensus announcement", "-"))
      [] arm = "DeployBufferRequest" ->
           drop(self, arm,
                LogEntry("error", "Ignoring deploy buffer request", "-"))
      [] arm = "ProtoBlockValidatorRequest" ->
           drop(self, arm,
                LogEntry("error", "Ignoring proto block validation request", "-"))
      [] arm = "AddressGossiper" ->
           forward(self, "address_gossiper", "Event::AddressGossiper",
                   Inner(event), c, arm)
      [] arm = "AddressGossiperAnnouncement" ->
           LET reactor_event ==
                   Event_Network(Native("Network", "PeerAddressReceived", "-",
                                        event.n, "-"))
           IN  through(arm, dispatch_event(self, reactor_event, c))

\* is_stopped reading a second component: true also once the block fetcher
\* has handled an event.
is_stopped_any(self) ==
    is_synced(self.linear_chain_sync) \/ self.linear_chain_fetcher.cnt > 0

\* Reactor::is_stopped
is_stopped(self) == is_synced(self.linear_chain_sync)

(***************************************************************************)
(* Reactor::new.                                                           *)
(***************************************************************************)
None == [some |-> FALSE, val |-> <<>>]
Some(x) == [some |-> TRUE, val |-> <<x>>]

\* Configuration strings are sequences of characters; a character is its
\* hex value, or 16 when it is no hex digit.  A digest is two digits here.
TrustedHashes == {None, Some(<<1, 2>>), Some(<<1, 16>>), Some(<<1>>)}

\* Digest::from_hex
from_hex(str) ==
    IF Len(str) = 2 /\ \A i \in DOMAIN str : str[i] < 16
    THEN [ok |-> TRUE, digest |-> str[1] * 16 + str[2]]
    ELSE [ok |-> FALSE, digest |-> 0]

\* A freshly constructed component.
Component(name) == [is |-> name, cnt |-> 0]

\* What the constructors called by new do that the caller cannot choose:
\* whether SmallNetwork::new and EraSupervisor::new succeed and how many
\* effects each returns.
NewEnv == [net_ok : BOOLEAN, consensus_ok : BOOLEAN,
           net_neff : InitialEffectCounts,
           consensus_neff : InitialEffectCounts]

\* The state of the initializer reactor that new deconstructs.
Initializers ==
    { [config |-> [is |-> "Config", trusted_hash |-> th],
       chainspec_loader |-> [is |-> "ChainspecLoader",
                             genesis_post_state_hash |-> g],
       storage |-> Component("Storage"),
       contract_runtime |-> Component("ContractRuntime")]
      : th \in TrustedHashes, g \in {None, Some(7)} }

\* The reactor variable when there is no reactor (before new, after a failed
\* new, and once into_validator_config has consumed it).
NoReactor == [is |-> "none"]

\* new ending without a reactor after `steps`: an Err result or a panic.
NewFailed(steps, failure) ==
    [ok |-> FALSE, failure |-> failure, steps |-> steps,
     self |-> NoReactor, effects |-> <<>>]

\* new returning the consensus component's effects for scheduling too.
new_effects_with_consensus(net_effects, init_consensus_effects) ==
    wrap_effects("Event::Network", net_effects)
        \o wrap_effects("Event::Consensus", init_consensus_effects)

\* The effects new returns for scheduling, given those the network's and the
\* consensus component's constructors returned.
new_effects(net_effects, init_consensus_effects) ==
    wrap_effects("Event::Network", net_effects)

\* The trusted hash decoded with a fallible conversion whose error is
\* discarded: a malformed hash counts as no hash.
init_hash_of_lenient(trusted_hash) ==
    IF trusted_hash.some /\ from_hex(trusted_hash.val[1]).ok
    THEN [panic |-> FALSE, hash |-> Some(from_hex(trusted_hash.val[1]).digest)]
    ELSE [panic |-> FALSE, hash |-> None]

\* init_hash: config.node.trusted_hash mapped through
\* Digest::from_hex(str_hash).unwrap(), which panics on a malformed string.
init_hash_of(trusted_hash) ==
    IF ~trusted_hash.some
    THEN [panic |-> FALSE, hash |-> None]
    ELSE IF from_hex(trusted_hash.val[1]).ok
    THEN [panic |-> FALSE, hash |-> Some(from_hex(trusted_hash.val[1]).digest)]
    ELSE [panic |-> TRUE, hash |-> None]

\* The fallible and constructing steps of new with the three fetchers and
\* the block validator all built before the trusted hash is decoded.
construction_order_fetchers_first(has_trusted_hash) ==
    <<"SmallNetwork::new", "Fetcher::new(linear_chain_fetcher)",
      "Gossiper::new_for_complete_items", "BlockValidator::new",
      "Fetcher::new(deploy_fetcher)",
      "Fetcher::new(block_by_height_fetcher)">>
    \o (IF has_trusted_hash THEN <<"Digest::from_hex">> ELSE <<>>)
    \o <<"LinearChainSync::new", "genesis_post_state_hash",
         "BlockExecutor::new", "LinearChain::new", "EraSupervisor::new">>

\* The fallible and constructing steps of new, in the order of its
\* statements; Digest::from_hex runs only when a trusted hash is configured.
construction_order(has_trusted_hash) ==
    <<"SmallNetwork::new", "Fetcher::new(linear_chain_fetcher)",
      "Gossiper::new_for_complete_items">>
    \o (IF has_trusted_hash THEN <<"Digest::from_hex">> ELSE <<>>)
    \o <<"LinearChainSync::new", "BlockValidator::new",
         "Fetcher::new(deploy_fetcher)",
         "Fetcher::new(block_by_height_fetcher)",
         "genesis_post_state_hash", "BlockExecutor::new", "LinearChain::new",
         "EraSupervisor::new">>

\* The steps of `order` up to and including `step`.
UpTo(order, step) ==
    SubSeq(order, 1, CHOOSE i \in DOMAIN order : order[i] = step)

\* Reactor::new: the result, with the constructors called, in order.
new(initializer, env) ==
    LET config == initializer.config
        chainspec_loader == initializer.chainspec_loader
        str_hash == config.trusted_hash
        order == construction_order(str_hash.some)
        steps1 == UpTo(order, "SmallNetwork::new")
        steps3 == UpTo(order, "Digest::from_hex")
        steps5 == UpTo(order, "genesis_post_state_hash")
        steps6 == UpTo(order, "EraSupervisor::new")
        net_effects == InitialEffects("net", env.net_neff)
        init_consensus_effects ==
            InitialEffects("consensus", env.consensus_neff)
        effects == new_effects(net_effects, init_consensus_effects)
        init_hash == init_hash_of(str_hash).hash
        genesis == chainspec_loader.genesis_post_state_hash
    IN  IF ~env.net_ok
        THEN NewFailed(steps1, "Err")
        ELSE IF init_hash_of(str_hash).panic
        THEN NewFailed(steps3, "panic")
        ELSE IF ~genesis.some
        THEN NewFailed(steps5, "panic")
        ELSE IF ~env.consensus_ok
        THEN NewFailed(steps6, "Err")
        ELSE [ok |-> TRUE, failure |-> "-", steps |-> steps6,
              self |->
                [is |-> "joiner::Reactor",
                 net |-> [is |-> "SmallNetwork", cnt |-> 0, open |-> TRUE],
                 address_gossiper |-> Component("Gossiper"),
                 config |-> config,
                 chainspec_loader |-> chainspec_loader,
                 storage |-> initializer.storage,
                 contract_runtime |-> initializer.contract_runtime,
                 linear_chain_sync |->
                     [is |-> "LinearChainSync", cnt |-> 0,
                      init_hash |-> init_hash, peers |-> {},
                      synced |-> ~init_hash.some],
                 linear_chain_fetcher |-> Component("Fetcher<Block>"),
                 block_validator |-> Component("BlockValidator"),
                 deploy_fetcher |-> Component("Fetcher<Deploy>"),
                 block_executor |->
                     [is |-> "BlockExecutor", cnt |-> 0,
                      pre_state_hash |-> genesis.val[1]],
                 linear_chain |-> [is |-> "LinearChain", cnt |-> 0,
                                   chain |-> <<>>],
                 consensus |-> Component("EraSupervisor"),
                 init_consensus_effects |-> init_consensus_effects,
                 block_by_height_fetcher |->
                     Component("Fetcher<BlockByHeight>")],
              effects |-> effects]

(***************************************************************************)
(* Reactor::into_validator_config.                                         *)
(***************************************************************************)
\* A ValidatorInitConfig with a newly built consensus component in place of
\* the reactor's.
ValidatorInitConfig_fresh_consensus(self) ==
    [chainspec_loader |-> self.chainspec_loader,
     config |-> self.config,
     contract_runtime |-> self.contract_runtime,
     storage |-> self.storage,
     consensus |-> Component("EraSupervisor"),
     init_consensus_effects |-> self.init_consensus_effects,
     linear_chain |-> linear_chain_of(self.linear_chain)]

\* The ValidatorInitConfig built from the fields of the consumed reactor.
ValidatorInitConfig(self) ==
    [chainspec_loader |-> self.chainspec_loader,
     config |-> self.config,
     contract_runtime |-> self.contract_runtime,
     storage |-> self.storage,
     consensus |-> self.consensus,
     init_consensus_effects |-> self.init_consensus_effects,
     linear_chain |-> linear_chain_of(self.linear_chain)]

\* into_validator_config borrowing the reactor instead of consuming it.
consume_borrowed(self) == self

\* What is left of the reactor once into_validator_config(self) has taken
\* it by value.
consume(self) == NoReactor

\* SmallNetwork::finalize: the listening socket and every connection closed.
finalize(net) == [net EXCEPT !.open = FALSE]

\* into_validator_config returning config without awaiting net.finalize().
into_validator_config_unawaited(at) ==
    CASE at = "running" -> "return"
      [] at = "finalize" -> "return"
      [] at = "return" -> "done"

\* The statement of into_validator_config that follows the one at `at`:
\* the tuple (net, config) is built, net.finalize() is awaited, config is
\* returned.
into_validator_config_next(at) ==
    CASE at = "running" -> "finalize"
      [] at = "finalize" -> "return"
      [] at = "return" -> "done"

(***************************************************************************)
(* The events the host scheduler may find at the head of the event queue   *)
(* besides the results of the effects in flight.                           *)
(***************************************************************************)
MessagePayloads ==
    { [m |-> "GetResponse", tag |-> t, bytes |-> b] :
          t \in {"Block", "BlockByHeight"}, b \in SerializedItems }
    \cup { [m |-> "GetResponse", tag |-> "Deploy", bytes |-> <<1, 1>>],
           [m |-> "GetRequest", tag |-> "Block", bytes |-> <<1>>],
           [m |-> "AddressGossiper", tag |-> "-", bytes |-> <<>>],
           [m |-> "Consensus", tag |-> "-", bytes |-> <<>>] }

ExternalEvents ==
    { Ev(v, "Result", "-", "-", "-", 1, "-", <<>>) : v \in ComponentVariants }
    \cup { Ev(v, "Fetch", "-", "-", p, 1, "-", <<>>) :
             v \in {"BlockFetcherRequest", "BlockByHeightFetcherRequest",
                    "DeployFetcherRequest"}, p \in Peers }
    \cup { Ev(v, "Request", "-", "-", p, 1, "-", <<>>) :
             v \in {"BlockValidatorRequest", "ProtoBlockValidatorRequest"},
             p \in Peers }
    \cup { Ev("BlockExecutorRequest", "ExecuteBlock", "-", "-", "-", b, "-", <<>>) :
             b \in Blocks }
    \cup { Ev("DeployBufferRequest", k, "-", "-", "-", 1, "-", <<>>) :
             k \in {"ListForInclusion", "Other"} }
    \cup { Ev("NetworkAnnouncement", "NewPeer", "-", "-", p, 0, "-", <<>>) :
             p \in Peers }
    \cup { Ev("NetworkAnnouncement", "GossipOurAddress", "-", "-", "-", 1, "-",
              <<>>) }
    \cup { Ev("NetworkAnnouncement", "MessageReceived", pl.m, pl.tag, p, 1,
              "-", pl.bytes) : pl \in MessagePayloads, p \in Peers }
    \cup { Ev("BlockExecutorAnnouncement", "LinearChainBlock", "-", "-", "-",
              b, "Block", <<>>) : b \in Blocks }
    \cup { Ev("ConsensusAnnouncement", "Handled", "-", "-", "-", h, "-", <<>>) :
             h \in Heights }
    \cup { Ev("ConsensusAnnouncement", k, "-", "-", "-", 1, "-", <<>>) :
             k \in {"Proposed", "Finalized"} }
    \cup { Ev("AddressGossiperAnnouncement", "NewCompleteItem", "-", "-", "-",
              a, "-", <<>>) : a \in Addresses }

\* The events that drive the phase to its end or change what it hands off:
\* those the sync tracker handles, those of the components that survive the
\* phase, one of a phase-local component, and one the router drops.
LifecycleEvents ==
    { ev \in ExternalEvents :
        \/ ev.v = "NetworkAnnouncement" /\ ev.k = "NewPeer"
        \/ ev.v = "ConsensusAnnouncement" /\ ev.k = "Handled" /\ ev.n = 1
        \/ ev.v \in {"Storage", "ContractRuntime", "Consensus"}
        \/ ev.v = "BlockExecutorAnnouncement"
        \/ ev.v = "DeployFetcherRequest" /\ ev.p = "P"
        \/ ev.v = "DeployBufferRequest" /\ ev.k = "Other" }

(***************************************************************************)
(* The random source `rng: &mut R` threaded through dispatch_event.        *)
(***************************************************************************)
\* A seeded pseudo-random source is its 3-bit state; a source seeded from
\* outside the program (the operating system's entropy) has no state the
\* program determines.
RngStates == 0..7
Seeded(s) == [kind |-> "seeded", state |-> s]
Entropy == [kind |-> "entropy", state |-> 0]

\* One draw advances a seeded source: a full-period congruential step.
Advance(rng) ==
    IF rng.kind = "seeded"
    THEN Seeded((5 * rng.state + 3) % 8)
    ELSE rng

\* The choices a handler can make when it is handed the source `rng`: the
\* one its state determines, or any when nothing determines its draws.
Draws(rng) ==
    IF rng.kind = "seeded"
    THEN {[neff |-> rng.state % 3, sync |-> rng.state >= 4]}
    ELSE Choices

\* The handlers handed a source made on the spot from fresh entropy.
rng_for_handler_fresh(rng) == Entropy

\* The source dispatch_event hands to the handler it invokes: the very
\* `rng` it was called with, also across the recursive call.
rng_for_handler(rng) == rng

\* The caller's source after dispatch_event returns: dispatch_event itself
\* never draws, so the source has advanced once per handler invoked.
rng_after(rng, handled) ==
    IF handled = <<>> THEN rng ELSE Advance(rng)

(***************************************************************************)
(* State.                                                                  *)
(***************************************************************************)
VARIABLES
    pc,          \* where the phase is: "new", "aborted", "running", then the
                 \* statements of into_validator_config, then "done"
    reactor,     \* the joiner::Reactor, or NoReactor
    built,       \* the constructors new has called, in order
    pending,     \* the effects in flight, each as the event it resolves to
    event,       \* the event of the last dispatch cycle
    effects,     \* the effects the last call of new or dispatch_event returned
    handled,     \* the handler invocations of the last dispatch cycle
    log,         \* the log entries of the last dispatch cycle
    path,        \* the match arms the last dispatch cycle took
    dispatched,  \* the number of dispatch cycles so far
    tv_net,      \* into_validator_config: the local `net`
    tv_config,   \* into_validator_config: the local `config`
    handoff,     \* what into_validator_config has returned
    teardowns,   \* the number of calls of into_validator_config
    args,        \* what new was called with and what its constructors met
    announced,   \* history: the blocks announced as executed and appended
    rng,         \* the random source the host passes to dispatch_event
    twin         \* a second copy of reactor and rng, fed the same events

vars == <<pc, reactor, built, pending, event, effects, handled, log,
          path, dispatched, tv_net, tv_config, handoff, teardowns, args,
          announced, rng, twin>>

Nothing == [is |-> "none"]
NoEvent == Ev("-", "-", "-", "-", "-", 0, "-", <<>>)

Range(seq) == {seq[i] : i \in DOMAIN seq}

Init ==
    /\ pc = "new"
    /\ reactor = NoReactor
    /\ built = <<>>
    /\ pending = {}
    /\ event = NoEvent
    /\ effects = <<>>
    /\ handled = <<>>
    /\ log = <<>>
    /\ path = <<>>
    /\ dispatched = 0
    /\ tv_net = Nothing
    /\ tv_config = Nothing
    /\ handoff = Nothing
    /\ teardowns = 0
    /\ args = Nothing
    /\ announced = {}
    /\ rng = Seeded(0)
    /\ twin = Nothing

\* Reactor::new run on the initializer's state; when it succeeds, the
\* effects it returned are scheduled.
NewFrom(initializer, env) ==
    /\ pc = "new"
    /\ LET r == new(initializer, env) IN
       /\ pc' = IF r.ok THEN "running" ELSE "aborted"
       /\ reactor' = r.self
       /\ built' = r.steps
       /\ effects' = r.effects
       /\ pending' = Range(r.effects)
       /\ args' = [initializer |-> initializer, env |-> env]
    /\ UNCHANGED <<event, handled, log, path, dispatched, tv_net,
                   tv_config, handoff, teardowns, announced>>

\* The host runs Reactor::new on the initializer's state and, when it
\* succeeds, schedules the effects it returned.
New ==
    /\ \E initializer \in Initializers, env \in NewEnv :
         NewFrom(initializer, env)
    /\ UNCHANGED <<rng, twin>>

\* One dispatch cycle of the host scheduler: dispatch_event on the event ev,
\* then the effects it returned are scheduled.  The scheduler cranks only
\* while the reactor exists and is_stopped() is false.
Crank(ev, c) ==
    /\ pc = "running"
    /\ ~is_stopped(reactor)
    /\ \E r \in {dispatch_event(reactor, ev, c)} :
       /\ reactor' = r.self
       /\ effects' = r.effects
       /\ handled' = r.handled
       /\ log' = r.log
       /\ path' = r.path
    /\ event' = ev
    /\ dispatched' = dispatched + 1
    /\ announced' = IF ev.v = "BlockExecutorAnnouncement"
                    THEN announced \cup {ev.n}
                    ELSE announced
    /\ UNCHANGED <<args, pc, built, tv_net, tv_config, handoff, teardowns>>

\* The scheduler dispatches the result of a completed effect: the effect
\* leaves the set of effects in flight and its result is the event.
CrankResult ==
    \E e \in pending, c \in Choices :
        /\ dispatched < MaxDispatch
        /\ Crank(e, c)
        /\ pending' = (pending \ {e}) \cup Range(effects')
        /\ UNCHANGED <<rng, twin>>

\* The scheduler dispatches an event that an I/O task or an effect's request
\* or announcement put on the queue.
CrankExternal ==
    \E ev \in LifecycleEvents, c \in Choices :
        /\ dispatched < MaxDispatch
        /\ Crank(ev, c)
        /\ pending' = pending \cup Range(effects')
        /\ UNCHANGED <<rng, twin>>

\* An effect in flight completes once into_validator_config has consumed the
\* reactor: there is no reactor to dispatch its result to, and it is dropped.
EffectLost ==
    /\ pc \in {"finalize", "return", "done"}
    /\ \E e \in pending : pending' = pending \ {e}
    /\ UNCHANGED <<args, announced, rng, twin, pc, reactor, built, event, effects,
                   handled, log, path,
                   dispatched, tv_net, tv_config, handoff, teardowns>>

\* into_validator_config, first statement: the reactor is consumed, its
\* fields moved into the local tuple (net, config).
IntoValidatorConfig ==
    /\ pc = "running"
    /\ is_stopped(reactor)
    /\ tv_net' = reactor.net
    /\ tv_config' = ValidatorInitConfig(reactor)
    /\ reactor' = consume(reactor)
    /\ teardowns' = teardowns + 1
    /\ pc' = into_validator_config_next(pc)
    /\ UNCHANGED <<args, announced, rng, twin, built, pending, event, effects,
                   handled, log, path,
                   dispatched, handoff>>

\* into_validator_config: net.finalize().await completes.
NetFinalize ==
    /\ pc = "finalize"
    /\ tv_net' = finalize(tv_net)
    /\ pc' = into_validator_config_next(pc)
    /\ UNCHANGED <<args, announced, rng, twin, reactor, built, pending, event,
                   effects, handled,
                   log, path, dispatched, tv_config, handoff, teardowns>>

\* into_validator_config: config is returned to the caller.
Return ==
    /\ pc = "return"
    /\ handoff' = tv_config
    /\ pc' = into_validator_config_next(pc)
    /\ UNCHANGED <<args, announced, rng, twin, reactor, built, pending, event,
                   effects, handled,
                   log, path, dispatched, tv_net, tv_config, teardowns>>

\* The life cycle of the phase: construction, dispatch cycles until the
\* reactor stops, teardown.
Next ==
    \/ New
    \/ CrankResult
    \/ CrankExternal
    \/ EffectLost
    \/ IntoValidatorConfig
    \/ NetFinalize
    \/ Return

Spec == Init /\ [][Next]_vars

\* A dispatch cycle on any event of the algebra.
Route ==
    \E ev \in ExternalEvents, c \in Choices :
        /\ dispatched < MaxRouted
        /\ Crank(ev, c)
        /\ pending' = pending \cup Range(effects')
        /\ UNCHANGED <<rng, twin>>

\* The router: construction, dispatch cycles on any events until the
\* reactor stops, teardown.
NextRouter ==
    \/ New
    \/ Route
    \/ IntoValidatorConfig
    \/ NetFinalize
    \/ Return

RouterSpec == Init /\ [][NextRouter]_vars

\* Two reactors are constructed alike, and the host of each holds a random
\* source in the same state.
TwinNew ==
    \E initializer \in Initializers, env \in NewEnv, seed \in RngStates :
        /\ pc = "new"
        /\ new(initializer, env).ok
        /\ NewFrom(initializer, env)
        /\ rng' = Seeded(seed)
        /\ twin' = [reactor |-> new(initializer, env).self,
                    rng |-> Seeded(seed),
                    effects |-> new(initializer, env).effects]

\* Both reactors dispatch the same event, each handler drawing from the
\* source dispatch_event hands it.
TwinDispatch ==
    \E ev \in ExternalEvents :
        /\ dispatched < MaxRouted
        /\ twin # Nothing
        /\ \E c \in Draws(rng_for_handler(rng)),
              tc \in Draws(rng_for_handler(twin.rng)) :
              /\ Crank(ev, c)
              /\ pending' = pending \cup Range(effects')
              /\ rng' = rng_after(rng, handled')
              /\ \E r \in {dispatch_event(twin.reactor, ev, tc)} :
                 twin' = [reactor |-> r.self,
                          rng |-> rng_after(twin.rng, r.handled),
                          effects |-> r.effects]

\* Two copies of the reactor fed the same sequence of events.
NextTwin ==
    \/ TwinNew
    \/ TwinDispatch

TwinSpec == Init /\ [][NextTwin]_vars

(***************************************************************************)
(* Properties.                                                             *)
(***************************************************************************)
Running == pc = "running"
TornDown == pc \in {"finalize", "return", "done"}

\* The component that handled an event in the last dispatch cycle, if any.
HandledBy(field) == handled # <<>> /\ handled[1].field = field

\* C1: while the reactor runs, is_stopped() is true exactly when the sync
\* tracker reports synchronized, and a dispatch cycle changes its value only
\* when the sync tracker handled the event: no other component's event or
\* state does.
C1_StoppedIffSynced ==
    /\ [](Running => (is_stopped(reactor) <=> reactor.linear_chain_sync.synced))
    /\ [][(Running /\ Running' /\ is_stopped(reactor') # is_stopped(reactor))
            => (Len(handled') = 1 /\ handled'[1].field = "linear_chain_sync")]_vars

\* C1 witness: a dispatch cycle in which the sync tracker handled an event
\* and after which is_stopped() is true.
C1_Witness ==
    /\ Running /\ dispatched > 0
    /\ HandledBy("linear_chain_sync")
    /\ is_stopped(reactor)

C3_FinalizedBeforeHandoff ==
    handoff # Nothing => (tv_net # Nothing /\ ~tv_net.open)

\* C3 witness: the hand-off record has been returned.
C3_Witness == handoff # Nothing /\ pc = "done"

HandoffFields ==
    {"chainspec_loader", "config", "contract_runtime", "storage",
     "consensus", "init_consensus_effects", "linear_chain"}

\* C4: the record into_validator_config builds has exactly the seven fields,
\* each the consumed reactor's own component as it was at that moment (the
\* chain the linear chain component's chain), and that record is what is
\* returned; no other component of the reactor is a field of it.
C4_HandoffRecord ==
    /\ [][(Running /\ TornDown')
            => /\ DOMAIN tv_config' = HandoffFields
               /\ tv_config'.chainspec_loader = reactor.chainspec_loader
               /\ tv_config'.config = reactor.config
               /\ tv_config'.contract_runtime = reactor.contract_runtime
               /\ tv_config'.storage = reactor.storage
               /\ tv_config'.consensus = reactor.consensus
               /\ tv_config'.init_consensus_effects
                      = reactor.init_consensus_effects
               /\ tv_config'.linear_chain = reactor.linear_chain.chain
               /\ tv_net' = reactor.net]_vars
    /\ [][TornDown => tv_config' = tv_config]_vars
    /\ [](handoff # Nothing => handoff = tv_config)

\* C4 witness: a hand-off record returned by a reactor whose linear chain
\* component had appended a block.
C4_Witness ==
    /\ handoff # Nothing
    /\ handoff.linear_chain = <<2>>

\* The effects the consensus component's constructor can have returned,
\* lifted as Consensus events.
LiftedInitConsensusEffects ==
    {Event_Consensus(e) :
        e \in UNION {Range(InitialEffects("consensus", n)) :
                        n \in InitialEffectCounts}}

\* C5: the effects new returns are the network's initial effects, lifted as
\* Network events; the consensus component's initial effects are stored, are
\* never among the effects in flight nor the event of a dispatch cycle, are
\* left unchanged by every dispatch cycle, and are handed off as stored.
C5_ConsensusEffectsCarried ==
    /\ []((Running /\ dispatched = 0)
            => /\ \E n \in InitialEffectCounts :
                     effects = wrap_effects("Event::Network",
                                            InitialEffects("net", n))
               /\ \E n \in InitialEffectCounts :
                     reactor.init_consensus_effects
                         = InitialEffects("consensus", n))
    /\ [](pending \cap LiftedInitConsensusEffects = {})
    /\ [](event \notin LiftedInitConsensusEffects)
    /\ [][(Running /\ Running')
            => reactor'.init_consensus_effects
                   = reactor.init_consensus_effects]_vars
    /\ [][(Running /\ TornDown')
            => tv_config'.init_consensus_effects
                   = reactor.init_consensus_effects]_vars

\* C5 witness: a hand-off record carrying two consensus effects, returned
\* after a dispatch cycle, by a reactor whose construction returned two
\* network effects for scheduling.
C5_Witness ==
    /\ handoff # Nothing
    /\ Len(handoff.init_consensus_effects) = 2
    /\ dispatched > 0
    /\ Cardinality({e \in pending : e.k = "Initial"}) = 2

\* The last dispatch cycle was of a network message carrying a Get response
\* with the given tag.
GotResponse(tag) ==
    /\ event.v = "NetworkAnnouncement" /\ event.k = "MessageReceived"
    /\ event.m = "GetResponse" /\ event.tag = tag

\* A step that is a dispatch cycle.
Dispatch == dispatched' = dispatched + 1

\* C6: a dispatch cycle of a deploy buffer request or a proto block
\* validation request, whatever the request, returns no effects, invokes no
\* handler, changes no component, and logs exactly one entry, at error level.
C6_DisallowedRequestsDropped ==
    /\ [](event.v \in {"DeployBufferRequest", "ProtoBlockValidatorRequest"}
            => /\ effects = <<>>
               /\ handled = <<>>
               /\ Len(log) = 1 /\ log[1].level = "error")
    /\ [][(Dispatch /\ event'.v \in {"DeployBufferRequest",
                                      "ProtoBlockValidatorRequest"})
            => (reactor' = reactor /\ pending' = pending)]_vars

\* C6 witness: a deploy buffer request of each content has been dispatched.
C6_Witness ==
    /\ dispatched > 0
    /\ event.v = "DeployBufferRequest" /\ event.k = "ListForInclusion"
    /\ Len(log) = 1

\* A Get response tagged Block or BlockByHeight whose bytes do not decode as
\* that item.
Undecodable(ev) ==
    /\ ev.v = "NetworkAnnouncement" /\ ev.k = "MessageReceived"
    /\ ev.m = "GetResponse"
    /\ \/ ev.tag = "Block" /\ ~decode_Block(ev.bytes).ok
       \/ ev.tag = "BlockByHeight" /\ ~decode_BlockByHeight(ev.bytes).ok

\* C7: a dispatch cycle of a Get response tagged Block or BlockByHeight whose
\* bytes do not decode as that item leaves the reactor running and unchanged,
\* returns no effects, invokes no handler, and logs exactly one entry, at
\* error level, naming the sender.
C7_UndecodableResponseDropped ==
    /\ [](Undecodable(event)
            => /\ effects = <<>>
               /\ handled = <<>>
               /\ Len(log) = 1
               /\ log[1].level = "error" /\ log[1].p = event.p
               /\ event.p \in Peers)
    /\ [][(Dispatch /\ Undecodable(event'))
            => (reactor' = reactor /\ Running')]_vars

\* C7 witness: bytes that are a valid block but no valid BlockByHeight have
\* been dispatched tagged BlockByHeight, sent by Q.
C7_Witness ==
    /\ GotResponse("BlockByHeight") /\ event.bytes = <<1, 1>>
    /\ event.p = "Q"
    /\ Len(log) = 1

\* Two patterns that some event could both match.
Overlap(pat1, pat2) ==
    /\ pat1.v = pat2.v
    /\ pat1.k = "_" \/ pat2.k = "_" \/ pat1.k = pat2.k

\* C8: every Event variant has an arm, no two arms have overlapping
\* patterns, and in every dispatch cycle exactly one arm's pattern matches
\* the event, that arm is the one taken, at most one further arm is taken
\* (the component's, for a synthesized event), and at most one handler runs.
C8_ExactlyOnePath ==
    /\ \A v \in EventVariants : \E i \in DOMAIN Arms : Arms[i].v = v
    /\ \A i, j \in DOMAIN Arms : i # j => ~Overlap(Arms[i], Arms[j])
    /\ dispatched > 0
         => /\ Cardinality(MatchingArms(event)) = 1
            /\ \A i \in MatchingArms(event) : path[1] = Arms[i].arm
            /\ Len(path) \in {1, 2}
            /\ Len(path) = 2 => path[2] \in ComponentVariants
            /\ Len(handled) <= 1
            /\ Len(path) = 2
                 => (Len(handled) = 1 /\ VariantOf(handled[1].field) = path[2])

\* C8 witness: an announcement dispatched through its arm and then through
\* the arm of the component whose event it was turned into.
C8_Witness ==
    /\ event.v = "NetworkAnnouncement" /\ event.k = "GossipOurAddress"
    /\ path = <<"GossipOurAddress", "AddressGossiper">>
    /\ Len(handled) = 1

NewPeerDispatched ==
    event.v = "NetworkAnnouncement" /\ event.k = "NewPeer"

C10_ResponseToFetcher ==
    /\ \A b \in Blocks :
         (GotResponse("Block") /\ event.bytes = <<1, b>>)
           => /\ handled = <<[field |-> "linear_chain_fetcher",
                              event |-> Native("BlockFetcher", "GotRemotely",
                                               event.p, b, "Block")]>>
              /\ \A i \in DOMAIN effects : effects[i].v = "BlockFetcher"
    /\ \A h \in Heights :
         (GotResponse("BlockByHeight") /\ event.bytes = <<0, h>>)
           => /\ handled = <<[field |-> "block_by_height_fetcher",
                              event |-> Native("BlockByHeightFetcher",
                                               "GotRemotely", event.p, h,
                                               "Absent")]>>
              /\ \A i \in DOMAIN effects :
                     effects[i].v = "BlockByHeightFetcher"
    /\ \A b \in Blocks :
         (GotResponse("BlockByHeight") /\ event.bytes = <<1, 1, b>>)
           => /\ handled = <<[field |-> "block_by_height_fetcher",
                              event |-> Native("BlockByHeightFetcher",
                                               "GotRemotely", event.p, b,
                                               "Block")]>>
              /\ \A i \in DOMAIN effects :
                     effects[i].v = "BlockByHeightFetcher"

\* C10 witness: block 2 sent by Q has reached the block fetcher.
C10_Witness ==
    /\ GotResponse("Block") /\ event.bytes = <<1, 2>> /\ event.p = "Q"
    /\ HandledBy("linear_chain_fetcher")
    /\ handled[1].event.n = 2 /\ handled[1].event.p = "Q"

\* The last dispatch cycle was of this consensus announcement.
ConsensusAnnounced(k) == event.v = "ConsensusAnnouncement" /\ event.k = k

\* C11: a dispatch cycle of the consensus announcement Handled(H) invokes
\* exactly one handler, the sync tracker's, with BlockHandled(H), and returns
\* only that handler's effects, lifted as LinearChainSync events; a dispatch
\* cycle of any other consensus announcement returns no effects and invokes
\* no handler (it logs one warning).
C11_HandledToSyncTracker ==
    /\ ConsensusAnnounced("Handled")
         => /\ handled = <<[field |-> "linear_chain_sync",
                            event |-> Native("LinearChainSync", "BlockHandled",
                                             "-", event.n, "-")]>>
            /\ \A i \in DOMAIN effects : effects[i].v = "LinearChainSync"
            /\ log = <<>>
    /\ (event.v = "ConsensusAnnouncement" /\ event.k # "Handled")
         => /\ effects = <<>>
            /\ handled = <<>>
            /\ log = <<LogEntry("warn", "Ignoring consensus announcement", "-")>>

\* C11 witness: Handled(2) has reached the sync tracker as BlockHandled(2),
\* and the tracker's two effects came back.
C11_Witness ==
    /\ ConsensusAnnounced("Handled") /\ event.n = 2
    /\ HandledBy("linear_chain_sync") /\ handled[1].event.n = 2
    /\ Len(effects) = 2

\* new has been called (args records with what).
Constructed == pc # "new"

\* The configured trusted hash is present and is no well-formed hex digest.
MalformedTrustedHash ==
    /\ args.initializer.config.trusted_hash.some
    /\ ~from_hex(args.initializer.config.trusted_hash.val[1]).ok

\* The chainspec loader has no genesis post-state commitment.
MissingGenesis ==
    ~args.initializer.chainspec_loader.genesis_post_state_hash.some

\* One of the four ways construction can fail.
ConstructionFails ==
    \/ ~args.env.net_ok
    \/ MalformedTrustedHash
    \/ MissingGenesis
    \/ ~args.env.consensus_ok

\* C12: new is all-or-nothing.  When the trusted hash is malformed, the
\* genesis post-state commitment is missing, or the construction of the
\* network or of the consensus component fails, new ends without a reactor
\* and without returning effects: nothing is scheduled and nothing is ever
\* dispatched or handed off.  Otherwise it yields a running reactor.
C12_NewAllOrNothing ==
    Constructed
      => /\ ConstructionFails
              => /\ pc = "aborted"
                 /\ reactor = NoReactor
                 /\ effects = <<>>
                 /\ pending = {}
                 /\ dispatched = 0
                 /\ handoff = Nothing
         /\ ~ConstructionFails => pc # "aborted"

\* C12 witness: the network was built and returned two effects, the trusted
\* hash was malformed, and new ended with nothing.
C12_Witness ==
    /\ pc = "aborted"
    /\ args.env.net_ok /\ args.env.net_neff = 2
    /\ MalformedTrustedHash
    /\ reactor = NoReactor /\ effects = <<>>

\* C13: every effect a dispatch cycle returns is tagged with the Event
\* variant of the component whose handler produced it (also when the event
\* handled was synthesized from an announcement or a request), the effects
\* keep the order in which the handler produced them, and the event each
\* effect resolves to is routed back to that same component and no other.
\* A dispatch cycle that invoked no handler returns no effects.
C13_EffectsLiftedToOwner ==
    dispatched > 0
      => /\ Len(handled) <= 1
         /\ handled = <<>> => effects = <<>>
         /\ handled # <<>>
              => \A i \in DOMAIN effects :
                    /\ effects[i].v = VariantOf(handled[1].field)
                    /\ effects[i].k = "Result" => effects[i].n = i
                    /\ ArmOf(effects[i]) = VariantOf(handled[1].field)
                    /\ Running
                         => \A c \in Choices :
                              dispatch_event(reactor, effects[i], c).handled
                                = <<[field |-> handled[1].field,
                                     event |-> Inner(effects[i])]>>

\* C13 witness: a request was converted into the deploy fetcher's event, and
\* the fetcher's two effects came back tagged DeployFetcher, in order.
C13_Witness ==
    /\ event.v = "DeployFetcherRequest"
    /\ path = <<"DeployFetcherRequest", "DeployFetcher">>
    /\ HandledBy("deploy_fetcher")
    /\ Len(effects) = 2
    /\ effects[1].v = "DeployFetcher" /\ effects[1].n = 1
    /\ effects[2].v = "DeployFetcher" /\ effects[2].n = 2

\* The components whose state a step changes.
Mutated ==
    IF Running /\ Running'
    THEN {f \in ComponentFields : reactor'[f] # reactor[f]}
    ELSE {}

Dropped(ev) ==
    \/ Undecodable(ev)
    \/ /\ ev.v = "NetworkAnnouncement" /\ ev.k = "MessageReceived"
       /\ ev.m # "AddressGossiper"
       /\ ~(ev.m = "GetResponse" /\ ev.tag \in {"Block", "BlockByHeight"})
    \/ ev.v = "ConsensusAnnouncement" /\ ev.k # "Handled"
    \/ ev.v \in {"DeployBufferRequest", "ProtoBlockValidatorRequest"}

\* C15: a dispatch cycle of a dropped event is not fatal and leaves no
\* trace but its log entry: it returns no effects, invokes no handler,
\* changes no component, schedules nothing (no retry), and the reactor
\* keeps running in the very state it had; what dispatch_event yields
\* depends on that state and the event only, so every event dispatched next
\* yields what it would have yielded had the dropped event never arrived.
C15_DropsAreInert ==
    [][(Dispatch /\ Dropped(event'))
         => /\ effects' = <<>>
            /\ handled' = <<>>
            /\ Len(log') = 1
            /\ reactor' = reactor
            /\ pending' = pending
            /\ pc' = "running"
            /\ is_stopped(reactor') = is_stopped(reactor)]_vars

\* C15 witness: a Deploy response from P was dropped with a warning, and
\* the reactor runs on with the effects of construction still in flight.
C15_Witness ==
    /\ Running /\ dispatched > 0
    /\ GotResponse("Deploy") /\ event.p = "P"
    /\ effects = <<>> /\ handled = <<>>
    /\ log = <<LogEntry("warn", "network announcement ignored.", "-")>>
    /\ Cardinality(pending) = 2

\* The last dispatch cycle invoked exactly one handler, that of `field`,
\* with `native`, and returned effects of that component only.
HandledOnlyBy(field, native) ==
    /\ handled = <<[field |-> field, event |-> native]>>
    /\ \A i \in DOMAIN effects : effects[i].v = VariantOf(field)

\* C16: a dispatch cycle of a fetcher request is converted into the native
\* event of the fetcher of the same kind and invokes that fetcher's handler
\* only: a block fetcher request the block fetcher's, a deploy fetcher
\* request the deploy fetcher's, a block-by-height fetcher request the
\* block-by-height fetcher's; a block validator request invokes the block
\* validator's handler only and a block executor request the block
\* executor's only.  The effects returned are that component's.
C16_RequestsToOwners ==
    /\ event.v = "BlockFetcherRequest"
         => HandledOnlyBy("linear_chain_fetcher",
                          Native("BlockFetcher", "Fetch", event.p, event.n, "-"))
    /\ event.v = "DeployFetcherRequest"
         => HandledOnlyBy("deploy_fetcher",
                          Native("DeployFetcher", "Fetch", event.p, event.n, "-"))
    /\ event.v = "BlockByHeightFetcherRequest"
         => HandledOnlyBy("block_by_height_fetcher",
                          Native("BlockByHeightFetcher", "Fetch", event.p,
                                 event.n, "-"))
    /\ event.v = "BlockValidatorRequest"
         => HandledOnlyBy("block_validator",
                          Native("BlockValidator", "Request", event.p,
                                 event.n, "-"))
    /\ event.v = "BlockExecutorRequest"
         => HandledOnlyBy("block_executor",
                          Native("BlockExecutor", "Request", event.p,
                                 event.n, "-"))

\* C16 witness: a deploy fetcher request naming peer Q has reached the
\* deploy fetcher, which has handled one event; the block fetcher none.
C16_Witness ==
    /\ Running
    /\ event.v = "DeployFetcherRequest" /\ event.p = "Q"
    /\ HandledBy("deploy_fetcher") /\ handled[1].event.k = "Fetch"
    /\ handled[1].event.p = "Q"
    /\ reactor.deploy_fetcher.cnt = 1
    /\ reactor.linear_chain_fetcher.cnt = 0

\* The last dispatch cycle was of a "block executed and appended"
\* announcement.
BlockAnnounced ==
    event.v = "BlockExecutorAnnouncement" /\ event.k = "LinearChainBlock"

C18_GossipToAddressGossiper ==
    /\ (event.v = "NetworkAnnouncement" /\ event.k = "GossipOurAddress")
         => HandledOnlyBy("address_gossiper",
                          Native("AddressGossiper", "ItemReceived", "Client",
                                 event.n, "-"))
    /\ (event.v = "NetworkAnnouncement" /\ event.k = "MessageReceived"
          /\ event.m = "AddressGossiper")
         => HandledOnlyBy("address_gossiper",
                          Native("AddressGossiper", "MessageReceived",
                                 event.p, event.n, "-"))

\* C18 witness: an address gossip message from Q has reached the address
\* gossiper with sender Q, and no other component has handled anything.
C18_Witness ==
    /\ Running
    /\ event.v = "NetworkAnnouncement" /\ event.k = "MessageReceived"
    /\ event.m = "AddressGossiper" /\ event.p = "Q"
    /\ HandledBy("address_gossiper")
    /\ handled[1].event.k = "MessageReceived" /\ handled[1].event.p = "Q"
    /\ reactor.address_gossiper.cnt = 1 /\ reactor.net.cnt = 0

\* C19: a dispatch cycle of the announcement that the gossip of address A
\* completed invokes exactly one handler, the network's, with
\* PeerAddressReceived(A), and returns the network's effects only, lifted as
\* Network events.
C19_CompletedGossipToNetwork ==
    event.v = "AddressGossiperAnnouncement"
      => /\ HandledOnlyBy("net",
                          Native("Network", "PeerAddressReceived", "-",
                                 event.n, "-"))
         /\ path = <<"AddressGossiperAnnouncement", "Network">>

\* C19 witness: the completed gossip of address 2 has reached the network
\* as PeerAddressReceived(2), and the network's two effects came back.
C19_Witness ==
    /\ Running
    /\ event.v = "AddressGossiperAnnouncement"
    /\ HandledBy("net") /\ handled[1].event.k = "PeerAddressReceived"
    /\ handled[1].event.n = 2
    /\ Len(effects) = 2 /\ effects[1].v = "Network"
    /\ reactor.net.cnt = 1 /\ reactor.address_gossiper.cnt = 0

\* The position of a step among the steps new has run, 0 when it has not.
BuiltAt(step) ==
    IF step \in Range(built)
    THEN CHOOSE i \in DOMAIN built : built[i] = step
    ELSE 0

\* `first` has run, and before `second` if that has run too.
BuiltBefore(first, second) ==
    /\ BuiltAt(first) > 0
    /\ BuiltAt(second) > 0 => BuiltAt(first) < BuiltAt(second)

\* The construction steps of the three fetchers and the block validator.
FetchersAndValidator ==
    {"Fetcher::new(linear_chain_fetcher)", "Fetcher::new(deploy_fetcher)",
     "Fetcher::new(block_by_height_fetcher)", "BlockValidator::new"}

\* C20 as stated: new builds the network first, then the fetchers and the
\* block validator, then the sync tracker from the decoded trusted hash,
\* then the block executor, then consensus last; so whenever the decoding of
\* the trusted hash or the construction of the sync tracker has been
\* reached, the fetchers and the block validator have all been built.
C20_OrderAsStated ==
    Constructed
      => /\ built[1] = "SmallNetwork::new"
         /\ \A step \in {"Digest::from_hex", "LinearChainSync::new"} :
              BuiltAt(step) > 0
                => \A f \in FetchersAndValidator : BuiltBefore(f, step)
         /\ BuiltAt("BlockExecutor::new") > 0
              => BuiltBefore("LinearChainSync::new", "BlockExecutor::new")
         /\ BuiltAt("EraSupervisor::new") \in {0, Len(built)}

\* The steps of new in the order of its statements, the decoding of the
\* trusted hash left out when none is configured.
StatementOrder ==
    LET decoded == IF args.initializer.config.trusted_hash.some
                   THEN <<"Digest::from_hex">> ELSE <<>>
    IN  <<"SmallNetwork::new", "Fetcher::new(linear_chain_fetcher)",
          "Gossiper::new_for_complete_items">>
        \o decoded
        \o <<"LinearChainSync::new", "BlockValidator::new",
             "Fetcher::new(deploy_fetcher)",
             "Fetcher::new(block_by_height_fetcher)",
             "genesis_post_state_hash", "BlockExecutor::new",
             "LinearChain::new", "EraSupervisor::new">>

\* C20: new builds the network first, then the block fetcher and the
\* address gossiper, then decodes the trusted hash and builds the sync
\* tracker from it, then builds the block validator, the deploy fetcher and
\* the block-by-height fetcher, then reads the genesis post-state hash and
\* builds the block executor from it, then the linear chain, and the
\* consensus component last.  The steps run are a prefix of that order: a
\* step that fails does so after every step before it has succeeded and
\* before any later component is built, and new succeeds only after all.
C20_ConstructionOrder ==
    Constructed
      => /\ \E n \in 1..Len(StatementOrder) :
               built = SubSeq(StatementOrder, 1, n)
         /\ built[Len(built)] =
              (IF ~args.env.net_ok THEN "SmallNetwork::new"
               ELSE IF MalformedTrustedHash THEN "Digest::from_hex"
               ELSE IF MissingGenesis THEN "genesis_post_state_hash"
               ELSE "EraSupervisor::new")
         /\ pc # "aborted" => built = StatementOrder

\* C20 witness: the decoding of a malformed trusted hash ended new after the
\* network, the block fetcher and the address gossiper were built, and
\* before the sync tracker, the block validator and the other fetchers.
C20_Witness ==
    /\ pc = "aborted"
    /\ built = <<"SmallNetwork::new", "Fetcher::new(linear_chain_fetcher)",
                 "Gossiper::new_for_complete_items", "Digest::from_hex">>
    /\ BuiltAt("BlockValidator::new") = 0
    /\ BuiltAt("LinearChainSync::new") = 0

ReDispatched ==
    {"Network", "BlockFetcher", "BlockByHeightFetcher", "DeployFetcher",
     "BlockValidator", "BlockExecutor", "LinearChain", "AddressGossiper"}

\* C22: every call of dispatch_event returns after at most one recursive
\* call.  A component event takes its own arm and no other; an announcement
\* or request takes its arm and at most one more, that of the component
\* event built from it, which is one of Network, BlockFetcher,
\* BlockByHeightFetcher, DeployFetcher, BlockValidator, BlockExecutor,
\* LinearChain and AddressGossiper and whose arm hands the event to that
\* component's handler; no arm is taken twice.
C22_OneLevelOfReDispatch ==
    dispatched > 0
      => /\ Len(path) \in {1, 2}
         /\ event.v \in ComponentVariants => path = <<event.v>>
         /\ Len(path) = 2
              => /\ event.v \in RequestVariants \cup AnnouncementVariants
                 /\ path[2] \in ReDispatched
                 /\ path[2] # path[1]
                 /\ Len(handled) = 1
                 /\ VariantOf(handled[1].field) = path[2]
                 /\ handled[1].event.v = NativeType(path[2])

\* C22 witness: a block-by-height fetcher request took its arm, then the
\* arm of the event built from it, which handed it to the fetcher.
C22_Witness ==
    /\ event.v = "BlockByHeightFetcherRequest"
    /\ path = <<"BlockByHeightFetcherRequest", "BlockByHeightFetcher">>
    /\ HandledBy("block_by_height_fetcher")
    /\ handled[1].event.k = "Fetch"

====
